---- MODULE Spec2Model ----
(***************************************************************************)
(* Comment / reaction subsystem of src/boo/comments.py.                    *)
(*                                                                         *)
(* The relational store is modelled as three committed tables (comments,   *)
(* reactions, users) plus, per caller, the uncommitted writes of the       *)
(* caller's open unit of work.  Every store statement of save_comment and  *)
(* react_to_comment is one step, so that a failure (an exception raised by *)
(* the store) can strike between any two statements, and so that callers   *)
(* can interleave.                                                         *)
(***************************************************************************)
EXTENDS Integers, FiniteSets, Sequences, TLC

\* ---------------------------------------------------------------- bounds
NUsers == 2
MaxComments == 2
NProcs == 2
\* Comments created while reactions run / while two callers interleave.
MaxReactComments == 2
MaxConcComments == 1
\* No further react is started on a comment whose counter is this far from
\* its number of reaction rows.
MaxDrift == 2
MaxConcDrift == 1
\* Comments created while pages are listed, readings of the store's clock,
\* and page numbers asked for.
MaxListComments == 3
MaxTime == 2
MaxPage == 3
\* Comments created while pages are located.
MaxNavComments == 4
\* Comments created, and drift of a counter allowed, while comments are
\* flagged.
MaxFlagComments == 2
MaxFlagDrift == 1
\* Comments created while the channel is synchronized, and edit requests
\* a channel message receives.
MaxSyncComments == 2
MaxRequests == 2
\* Comments reacted to, and drift of a counter allowed, while callers race
\* on an existing comment.
MaxRaceComments == 1
MaxRaceDrift == 1

\* Comments created, and drift of a counter allowed, while every operation
\* of the module is in use.
MaxFrameComments == 2
MaxFrameDrift == 1

\* Comments reacted to, and drift of a counter allowed, while callers pass
\* every reaction_type value.
MaxTypeComments == 1
MaxTypeDrift == 1

\* Comments created while concurrent callers comment on one post and
\* refresh its channel message.
MaxChannelComments == 2

\* ------------------------------------------------------------- constants
\* Python's None for an absent parent_comment_id / comment id.
None == -1

\* from config import COMMENTS_PER_PAGE: the page size of the deployment.
COMMENTS_PER_PAGE == 2

Users == 1..NUsers
CommentIds == 1..MaxComments
AllProcs == 1..NProcs

\* reaction_type values a caller may pass; "like" and "dislike" are the
\* two the reaction state machine knows.
AllTypes == {"like", "dislike", "love"}

\* The posts table is owned by another subsystem and only read here:
\* post 1 approved with a channel message, post 2 approved without one,
\* post 3 not approved.  Post 4 does not exist.
Posts ==
    [i \in 1..3 |->
        [approved |-> (i # 3),
         channel_message_id |-> IF i = 2 THEN None ELSE 100 + i]]
PostInputs == 1..4

\* The channel messages the posts refer to.
MessageIds == {Posts[i].channel_message_id : i \in DOMAIN Posts} \ {None}

\* parent_comment_id arguments: None, 0 (falsy in Python, never a comment
\* id), and every id the store may assign.
ParentInputs == {None, 0} \cup CommentIds

VARIABLES
    env,        \* configuration fixed at start: backend, callers, inputs
    now,        \* the store's clock (DEFAULT CURRENT_TIMESTAMP)
    comments,   \* committed comments table: comment_id -> row
    reactions,  \* committed reactions table: <<user, target, type>> -> #rows
    users,      \* committed users table: user_id -> comments_posted
    pc,         \* per caller: the statement it is about to execute
    call,       \* per caller: the operation and its arguments
    local,      \* per caller: local variables of the running function
    pend,       \* per caller: uncommitted writes of its unit of work
    ret,        \* per caller: the value returned
    pre,        \* per caller: committed tables when the call started
    prev,       \* the last completed react that went NoReaction -> t
    out,        \* the value the last read-only call returned
    chan,       \* the channel: edit requests received, count displayed
    sync        \* per caller: locals of update_channel_message_comment_count

vars == <<env, now, comments, reactions, users, pc, call, local, pend, ret, pre, prev,
          out, chan, sync>>

\* -------------------------------------------------------- table helpers
ReactionKeys == Users \X CommentIds \X AllTypes

NoReactions == [k \in ReactionKeys |-> 0]

NoComments == [i \in {} |-> 0]

\* Number of reaction rows of (u, c), over all types.
RowCount(R, u, c) ==
    R[<<u, c, "like">>] + R[<<u, c, "dislike">>] + R[<<u, c, "love">>]

\* Number of rows of type t targeting comment c.
TypeCount(R, c, t) ==
    LET RECURSIVE Sum(_)
        Sum(S) == IF S = {} THEN 0
                  ELSE LET u == CHOOSE x \in S : TRUE
                       IN R[<<u, c, t>>] + Sum(S \ {u})
    IN Sum(Users)

\* SELECT reaction_type FROM reactions WHERE user_id = ? AND target_id = ?
\* followed by fetchone(): one of the matching rows' types, or "none".
SelectReaction(R, u, c) ==
    IF RowCount(R, u, c) = 0 THEN {"none"}
    ELSE {t \in AllTypes : R[<<u, c, t>>] > 0}

\* DELETE FROM reactions WHERE user_id = ? AND target_id = ?
DeleteReaction(R, u, c) ==
    [k \in DOMAIN R |-> IF k[1] = u /\ k[2] = c THEN 0 ELSE R[k]]

\* UPDATE reactions SET reaction_type = ? WHERE user_id = ? AND target_id = ?
UpdateReaction(R, t, u, c) ==
    [k \in DOMAIN R |->
        IF k[1] = u /\ k[2] = c
        THEN (IF k[3] = t THEN RowCount(R, u, c) ELSE 0)
        ELSE R[k]]

\* INSERT INTO reactions (user_id, target_type, target_id, reaction_type)
InsertReaction(R, u, c, t) == [R EXCEPT ![<<u, c, t>>] = @ + 1]

\* The store keys Reaction rows by (user_id, target_type, target_id):
\* an INSERT of a second row with the same key is refused.
KeyViolationNone(R, u, c) == FALSE
KeyViolation(R, u, c) == RowCount(R, u, c) > 0

\* UPDATE comments SET likes = likes + dl, dislikes = dislikes + dd
\* WHERE comment_id = ?   (no row: nothing is updated)
UpdateCounts(C, c, dl, dd) ==
    IF c \in DOMAIN C
    THEN [C EXCEPT ![c].likes = @ + dl, ![c].dislikes = @ + dd]
    ELSE C

\* get_user_reaction: result[0] if result else None
get_user_reaction(R, u, c) == SelectReaction(R, u, c)

\* ------------------------------------------------- per-caller structures
NoCall ==
    [op |-> "idle", user |-> 0, cid |-> 0, rtype |-> "", post |-> 0,
     parent |-> None, content |-> ""]

NoLocal ==
    [existing |-> "none", action |-> "", comment_id |-> None,
     likes |-> 0, dislikes |-> 0, failedAt |-> ""]

NoRow ==
    [post_id |-> 0, content |-> "", user_id |-> 0, parent_comment_id |-> None,
     timestamp |-> 0, likes |-> 0, dislikes |-> 0, flagged |-> FALSE]

\* Uncommitted writes: the reaction rows of the key (call.user, call.cid)
\* [rl, rv], the counters of comment call.cid [cl, likes, dislikes], an
\* inserted comment row [il, iid, irow], and comments_posted of call.user
\* [ul, uval].  A written row stays locked until commit or rollback.
NoPend ==
    [rl |-> FALSE, rv |-> [t \in AllTypes |-> 0],
     cl |-> FALSE, likes |-> 0, dislikes |-> 0,
     il |-> FALSE, iid |-> None, irow |-> NoRow,
     ul |-> FALSE, uval |-> 0]

NoRet == [ok |-> FALSE, action |-> "", likes |-> 0, dislikes |-> 0, id |-> None]

NoPre == [comments |-> NoComments, reactions |-> NoReactions,
          users |-> [u \in Users |-> 0]]

NoPrev == [user |-> 0, cid |-> 0, rtype |-> "", likes |-> 0, dislikes |-> 0]

\* ------------------------------------------------------ the unit of work
\* What caller p reads: the committed tables overlaid with its own writes.
ViewReactions(p) ==
    [k \in DOMAIN reactions |->
        IF pend[p].rl /\ k[1] = call[p].user /\ k[2] = call[p].cid
        THEN pend[p].rv[k[3]]
        ELSE reactions[k]]

ViewComments(p) ==
    LET ins == IF pend[p].il
               THEN [i \in DOMAIN comments \cup {pend[p].iid} |->
                        IF i = pend[p].iid THEN pend[p].irow ELSE comments[i]]
               ELSE comments
    IN IF pend[p].cl /\ call[p].cid \in DOMAIN ins
       THEN [ins EXCEPT ![call[p].cid].likes = pend[p].likes,
                        ![call[p].cid].dislikes = pend[p].dislikes]
       ELSE ins

ViewUsers(p) ==
    IF pend[p].ul THEN [users EXCEPT ![call[p].user] = pend[p].uval] ELSE users

\* The store serializes conflicting writes to the same row: a statement
\* that writes a row another open unit of work has written waits.
KeyLockedByOther(p, u, c) ==
    \E q \in AllProcs \ {p} : pend[q].rl /\ call[q].user = u /\ call[q].cid = c

CommentLockedByOther(p, c) ==
    \E q \in AllProcs \ {p} : pend[q].cl /\ call[q].cid = c

InsertLockedByOther(p) == \E q \in AllProcs \ {p} : pend[q].il

UserLockedByOther(p, u) ==
    \E q \in AllProcs \ {p} : pend[q].ul /\ call[q].user = u

\* conn.commit(): the caller's writes become the committed rows.
Commit(p) ==
    /\ reactions' = ViewReactions(p)
    /\ comments' = ViewComments(p)
    /\ users' = ViewUsers(p)
    /\ pend' = [pend EXCEPT ![p] = NoPend]

NoCommit == UNCHANGED <<reactions, comments, users>>

\* An exception inside `with db_conn.get_connection() as conn`: the
\* connection's uncommitted writes are discarded, the except clause of
\* the function returns its failure value.
Raise(p, where) ==
    /\ pend' = [pend EXCEPT ![p] = NoPend]
    /\ local' = [local EXCEPT ![p].failedAt = where]
    /\ ret' = [ret EXCEPT ![p] = [NoRet EXCEPT !.action = "error"]]
    /\ pc' = [pc EXCEPT ![p] = "done"]
    /\ NoCommit

\* ------------------------------------------------------ react_to_comment
\* The counters of comment c are within the range explored.
WithinDrift(c) ==
    c \in DOMAIN comments =>
        /\ comments[c].likes - TypeCount(reactions, c, "like")
              \in -env.maxDrift..env.maxDrift
        /\ comments[c].dislikes - TypeCount(reactions, c, "dislike")
              \in -env.maxDrift..env.maxDrift

\* react_to_comment(user_id, comment_id, reaction_type) is called.
ReactBegin(p) ==
    /\ pc[p] = "idle"
    /\ \E u \in Users, c \in 1..env.maxComments, t \in env.rtypes :
        /\ WithinDrift(c)
        /\ call' = [call EXCEPT ![p] =
                      [NoCall EXCEPT !.op = "react", !.user = u, !.cid = c, !.rtype = t]]
        /\ prev' = IF prev.user = u /\ prev.cid = c /\ prev.rtype = t
                   THEN prev ELSE NoPrev
    /\ pre' = [pre EXCEPT ![p] =
                 IF env.track
                 THEN [comments |-> comments, reactions |-> reactions, users |-> users]
                 ELSE NoPre]
    /\ pc' = [pc EXCEPT ![p] = "r_check"]
    /\ UNCHANGED <<env, now, comments, reactions, users, local, pend, ret>>

\* Lines 170-173: the existing reaction of (user_id, comment_id).
ReactCheck(p) ==
    /\ pc[p] = "r_check"
    /\ \E e \in SelectReaction(ViewReactions(p), call[p].user, call[p].cid) :
        local' = [local EXCEPT ![p].existing = e]
    /\ pc' = [pc EXCEPT ![p] = "r_row"]
    /\ UNCHANGED <<env, now, comments, reactions, users, call, pend, ret, pre, prev>>

\* Variant: a switch of type deletes the row instead of updating it.
RowStatementDropOnSwitch(R, existing, u, c, t) ==
    IF existing # "none"
    THEN DeleteReaction(R, u, c)
    ELSE InsertReaction(R, u, c, t)

\* Lines 175-203: which statement changes the reaction row.
RowStatement(R, existing, u, c, t) ==
    IF existing # "none"
    THEN IF existing = t
         THEN DeleteReaction(R, u, c)
         ELSE UpdateReaction(R, t, u, c)
    ELSE InsertReaction(R, u, c, t)

\* Variant: removing a dislike decrements likes (the like branch copied).
CountDeltaCopiedBranch(existing, t) ==
    IF existing # "none"
    THEN IF existing = t
         THEN [dl |-> -1, dd |-> 0, action |-> "removed"]
         ELSE IF existing = "like"
              THEN [dl |-> -1, dd |-> 1, action |-> "changed"]
              ELSE [dl |-> 1, dd |-> -1, action |-> "changed"]
    ELSE IF t = "like"
         THEN [dl |-> 1, dd |-> 0, action |-> "added"]
         ELSE [dl |-> 0, dd |-> 1, action |-> "added"]

\* Lines 181-211: the counter adjustment and the action reported.
CountDelta(existing, t) ==
    IF existing # "none"
    THEN IF existing = t
         THEN IF t = "like"
              THEN [dl |-> -1, dd |-> 0, action |-> "removed"]
              ELSE [dl |-> 0, dd |-> -1, action |-> "removed"]
         ELSE IF existing = "like"
              THEN [dl |-> -1, dd |-> 1, action |-> "changed"]
              ELSE [dl |-> 1, dd |-> -1, action |-> "changed"]
    ELSE IF t = "like"
         THEN [dl |-> 1, dd |-> 0, action |-> "added"]
         ELSE [dl |-> 0, dd |-> 1, action |-> "added"]

\* Variant: the row statement is committed on its own (autocommit), ahead
\* of the counter adjustment.
ReactRowAutocommit(p) ==
    /\ pc[p] = "r_row"
    /\ ~KeyLockedByOther(p, call[p].user, call[p].cid)
    /\ LET u == call[p].user
           c == call[p].cid
           t == call[p].rtype
           e == local[p].existing
           R == ViewReactions(p)
       IN IF e = "none" /\ KeyViolation(R, u, c)
          THEN Raise(p, "key")
          ELSE /\ reactions' = RowStatement(R, e, u, c, t)
               /\ pc' = [pc EXCEPT ![p] = "r_count"]
               /\ UNCHANGED <<local, ret, pend, comments, users>>
    /\ UNCHANGED <<env, now, call, pre, prev>>

\* Lines 178-179, 190-191, 202-203: the reaction row is deleted, updated
\* or inserted inside the unit of work.
ReactRow(p) ==
    /\ pc[p] = "r_row"
    /\ ~KeyLockedByOther(p, call[p].user, call[p].cid)
    /\ LET u == call[p].user
           c == call[p].cid
           t == call[p].rtype
           e == local[p].existing
           R == ViewReactions(p)
       IN IF e = "none" /\ KeyViolation(R, u, c)
          THEN Raise(p, "key")
          ELSE /\ pend' = [pend EXCEPT ![p].rl = TRUE,
                                       ![p].rv = [x \in AllTypes |->
                                           RowStatement(R, e, u, c, t)[<<u, c, x>>]]]
               /\ pc' = [pc EXCEPT ![p] = "r_count"]
               /\ UNCHANGED <<local, ret>>
               /\ NoCommit
    /\ UNCHANGED <<env, now, call, pre, prev>>

\* Lines 181-186, 193-199, 205-211: the counters of the comment row are
\* adjusted inside the same unit of work.
ReactCount(p) ==
    /\ pc[p] = "r_count"
    /\ ~CommentLockedByOther(p, call[p].cid)
    /\ LET c == call[p].cid
           d == CountDelta(local[p].existing, call[p].rtype)
           C == UpdateCounts(ViewComments(p), c, d.dl, d.dd)
       IN /\ pend' = IF c \in DOMAIN C
                     THEN [pend EXCEPT ![p].cl = TRUE,
                                       ![p].likes = C[c].likes,
                                       ![p].dislikes = C[c].dislikes]
                     ELSE pend
          /\ local' = [local EXCEPT ![p].action = d.action]
    /\ pc' = [pc EXCEPT ![p] = IF env.use_postgresql THEN "r_commit" ELSE "r_read"]
    /\ UNCHANGED <<env, now, comments, reactions, users, call, ret, pre, prev>>

\* Lines 213-214: if db_conn.use_postgresql: conn.commit()
ReactCommit(p) ==
    /\ pc[p] = "r_commit"
    /\ Commit(p)
    /\ pc' = [pc EXCEPT ![p] = "r_read"]
    /\ UNCHANGED <<env, now, call, local, ret, pre, prev>>

\* Lines 216-221: the current counts are read back (0, 0 without a row).
ReactRead(p) ==
    /\ pc[p] = "r_read"
    /\ LET C == ViewComments(p)
           c == call[p].cid
       IN local' = [local EXCEPT
                      ![p].likes = IF c \in DOMAIN C THEN C[c].likes ELSE 0,
                      ![p].dislikes = IF c \in DOMAIN C THEN C[c].dislikes ELSE 0]
    /\ pc' = [pc EXCEPT ![p] = "r_exit"]
    /\ UNCHANGED <<env, now, comments, reactions, users, call, pend, ret, pre, prev>>

\* Line 223: return True, action, current_likes, current_dislikes; leaving
\* the with-block commits what the function has not committed itself.
ReactExit(p) ==
    /\ pc[p] = "r_exit"
    /\ Commit(p)
    /\ ret' = [ret EXCEPT ![p] =
                 [NoRet EXCEPT !.ok = TRUE, !.action = local[p].action,
                               !.likes = local[p].likes,
                               !.dislikes = local[p].dislikes]]
    /\ pc' = [pc EXCEPT ![p] = "done"]
    /\ UNCHANGED <<env, now, call, local, pre, prev>>

\* ---------------------------------------------------------- save_comment
\* Python truth value of a parent_comment_id argument (line 29).
Truthy(x) == x # None /\ x # 0

\* Variant: the query without "AND approved = 1".
PostExistsOnly(post) == post \in DOMAIN Posts

\* SELECT post_id FROM posts WHERE post_id = ? AND approved = 1
PostApproved(post) == post \in DOMAIN Posts /\ Posts[post].approved

\* SELECT comment_id FROM comments WHERE comment_id = ?
CommentExists(C, c) == c \in DOMAIN C

\* comment_id is assigned by the store, increasing.
NextCommentId(C) == Cardinality(DOMAIN C) + 1

\* The row INSERT INTO comments (post_id, content, user_id,
\* parent_comment_id) creates: the other columns take the table defaults.
NewComment(post, content, user, parent) ==
    [post_id |-> post, content |-> content, user_id |-> user,
     parent_comment_id |-> parent, timestamp |-> now,
     likes |-> 0, dislikes |-> 0, flagged |-> FALSE]

\* Number of create calls in progress (they may each insert one row).
Creating == Cardinality({q \in AllProcs : call[q].op = "create"})

\* save_comment(post_id, content, user_id, parent_comment_id) is called.
CreateBegin(p) ==
    /\ pc[p] = "idle"
    /\ Cardinality(DOMAIN comments) + Creating < env.maxComments
    /\ \E post \in env.posts, u \in env.authors, par \in env.parents,
          txt \in env.contents :
        call' = [call EXCEPT ![p] =
                   [NoCall EXCEPT !.op = "create", !.user = u, !.post = post,
                                  !.parent = par, !.content = txt]]
    /\ pre' = [pre EXCEPT ![p] =
                 IF env.track
                 THEN [comments |-> comments, reactions |-> reactions, users |-> users]
                 ELSE NoPre]
    /\ pc' = [pc EXCEPT ![p] = "c_post"]
    /\ UNCHANGED <<env, now, comments, reactions, users, local, pend, ret, prev>>

\* Lines 19-26: the post must exist and be approved.
CreatePostCheck(p) ==
    /\ pc[p] = "c_post"
    /\ IF PostApproved(call[p].post)
       THEN /\ pc' = [pc EXCEPT ![p] = "c_parent"]
            /\ UNCHANGED ret
       ELSE /\ pc' = [pc EXCEPT ![p] = "done"]
            /\ ret' = [ret EXCEPT ![p] = [NoRet EXCEPT !.action = "post_not_found"]]
    /\ UNCHANGED <<env, now, comments, reactions, users, call, local, pend, pre, prev>>

\* Lines 28-36: a parent_comment_id that is given must exist.
CreateParentCheck(p) ==
    /\ pc[p] = "c_parent"
    /\ IF Truthy(call[p].parent) /\ ~CommentExists(ViewComments(p), call[p].parent)
       THEN /\ pc' = [pc EXCEPT ![p] = "done"]
            /\ ret' = [ret EXCEPT ![p] = [NoRet EXCEPT !.action = "parent_not_found"]]
       ELSE /\ pc' = [pc EXCEPT ![p] = "c_insert"]
            /\ UNCHANGED ret
    /\ UNCHANGED <<env, now, comments, reactions, users, call, local, pend, pre, prev>>

\* Variant: the INSERT is committed on its own (autocommit), ahead of the
\* comments_posted update.
CreateInsertAutocommit(p) ==
    /\ pc[p] = "c_insert"
    /\ ~InsertLockedByOther(p)
    /\ LET id == NextCommentId(ViewComments(p))
       IN /\ comments' = [i \in DOMAIN comments \cup {id} |->
                            IF i = id
                            THEN NewComment(call[p].post, call[p].content,
                                            call[p].user, call[p].parent)
                            ELSE comments[i]]
          /\ local' = [local EXCEPT ![p].comment_id = id]
    /\ pc' = [pc EXCEPT ![p] = "c_user"]
    /\ UNCHANGED <<env, now, reactions, users, call, pend, ret, pre, prev>>

\* Lines 38-48: the comment row is inserted inside the unit of work.
CreateInsert(p) ==
    /\ pc[p] = "c_insert"
    /\ ~InsertLockedByOther(p)
    /\ LET id == NextCommentId(ViewComments(p))
       IN /\ pend' = [pend EXCEPT
                        ![p].il = TRUE, ![p].iid = id,
                        ![p].irow = NewComment(call[p].post, call[p].content,
                                               call[p].user, call[p].parent)]
          /\ local' = [local EXCEPT ![p].comment_id = id]
    /\ pc' = [pc EXCEPT ![p] = "c_user"]
    /\ UNCHANGED <<env, now, comments, reactions, users, call, ret, pre, prev>>

\* Lines 50-52: UPDATE users SET comments_posted = comments_posted + 1
CreateUserUpdate(p) ==
    /\ pc[p] = "c_user"
    /\ ~UserLockedByOther(p, call[p].user)
    /\ pend' = [pend EXCEPT ![p].ul = TRUE,
                            ![p].uval = ViewUsers(p)[call[p].user] + 1]
    /\ pc' = [pc EXCEPT ![p] = IF env.use_postgresql THEN "c_commit" ELSE "c_exit"]
    /\ UNCHANGED <<env, now, comments, reactions, users, call, local, ret, pre, prev>>

\* Lines 54-55: if db_conn.use_postgresql: conn.commit()
CreateCommit(p) ==
    /\ pc[p] = "c_commit"
    /\ Commit(p)
    /\ pc' = [pc EXCEPT ![p] = "c_exit"]
    /\ UNCHANGED <<env, now, call, local, ret, pre, prev>>

\* Line 57: return comment_id, None; leaving the with-block commits what
\* the function has not committed itself.
CreateExit(p) ==
    /\ pc[p] = "c_exit"
    /\ Commit(p)
    /\ ret' = [ret EXCEPT ![p] =
                 [NoRet EXCEPT !.ok = TRUE, !.id = local[p].comment_id]]
    /\ pc' = [pc EXCEPT ![p] = "done"]
    /\ UNCHANGED <<env, now, call, local, pre, prev>>

\* --------------------------------------------------------- flag_comment
\* flag_comment(comment_id) is called.
FlagBegin(p) ==
    /\ pc[p] = "idle"
    /\ \E c \in 1..env.maxComments :
         call' = [call EXCEPT ![p] = [NoCall EXCEPT !.op = "flag", !.cid = c]]
    /\ pre' = [pre EXCEPT ![p] =
                 IF env.track
                 THEN [comments |-> comments, reactions |-> reactions, users |-> users]
                 ELSE NoPre]
    /\ pc' = [pc EXCEPT ![p] = "f_update"]
    /\ UNCHANGED <<env, now, comments, reactions, users, local, pend, ret, prev>>

\* Variant: UPDATE comments SET flagged = NOT flagged WHERE comment_id = ?
FlagUpdateToggle(p) ==
    /\ pc[p] = "f_update"
    /\ ~CommentLockedByOther(p, call[p].cid)
    /\ comments' = IF call[p].cid \in DOMAIN comments
                   THEN [comments EXCEPT ![call[p].cid].flagged = ~@]
                   ELSE comments
    /\ ret' = [ret EXCEPT ![p] = [NoRet EXCEPT !.ok = TRUE]]
    /\ pc' = [pc EXCEPT ![p] = "done"]
    /\ UNCHANGED <<env, now, reactions, users, call, local, pend, pre, prev>>

\* Variant: UPDATE comments SET flagged = 1, likes = 0, dislikes = 0
\* WHERE comment_id = ?
FlagUpdateResetCounters(p) ==
    /\ pc[p] = "f_update"
    /\ ~CommentLockedByOther(p, call[p].cid)
    /\ comments' = IF call[p].cid \in DOMAIN comments
                   THEN [comments EXCEPT ![call[p].cid].flagged = TRUE,
                                         ![call[p].cid].likes = 0,
                                         ![call[p].cid].dislikes = 0]
                   ELSE comments
    /\ ret' = [ret EXCEPT ![p] = [NoRet EXCEPT !.ok = TRUE]]
    /\ pc' = [pc EXCEPT ![p] = "done"]
    /\ UNCHANGED <<env, now, reactions, users, call, local, pend, pre, prev>>

\* Lines 232-234: UPDATE comments SET flagged = 1 WHERE comment_id = ?,
\* a statement of its own through execute_query; then return True.
FlagUpdate(p) ==
    /\ pc[p] = "f_update"
    /\ ~CommentLockedByOther(p, call[p].cid)
    /\ comments' = IF call[p].cid \in DOMAIN comments
                   THEN [comments EXCEPT ![call[p].cid].flagged = TRUE]
                   ELSE comments
    /\ ret' = [ret EXCEPT ![p] = [NoRet EXCEPT !.ok = TRUE]]
    /\ pc' = [pc EXCEPT ![p] = "done"]
    /\ UNCHANGED <<env, now, reactions, users, call, local, pend, pre, prev>>

\* ------------------------------------------------------ failure, return
\* The statements that can raise: every store statement, and the commit
\* on leaving the with-block when the function did not commit itself.
Failable(p) ==
    \/ pc[p] \in {"r_check", "r_row", "r_count", "r_commit", "r_read",
                  "c_post", "c_parent", "c_insert", "c_user", "c_commit",
                  "f_update"}
    \/ pc[p] \in {"r_exit", "c_exit"} /\ ~env.use_postgresql

\* Lines 58-60, 224-226: the store raises at the statement pc[p].
Fail(p) ==
    /\ Failable(p)
    /\ Raise(p, pc[p])
    /\ UNCHANGED <<env, now, call, pre, prev>>

\* A completed react that took (user, comment) from NoReaction to t on an
\* existing comment is remembered until the next react on that comment.
PrevAfter(p) ==
    LET u == call[p].user
        c == call[p].cid
    IN IF call[p].op # "react" \/ ~env.track THEN prev
       ELSE IF /\ ret[p].ok
               /\ c \in DOMAIN pre[p].comments
               /\ RowCount(pre[p].reactions, u, c) = 0
            THEN [user |-> u, cid |-> c, rtype |-> call[p].rtype,
                  likes |-> pre[p].comments[c].likes,
                  dislikes |-> pre[p].comments[c].dislikes]
            ELSE IF c = prev.cid THEN NoPrev ELSE prev

\* The caller takes the returned value; it may call again.
Return(p) ==
    /\ pc[p] = "done"
    /\ prev' = PrevAfter(p)
    /\ pc' = [pc EXCEPT ![p] = "idle"]
    /\ call' = [call EXCEPT ![p] = NoCall]
    /\ local' = [local EXCEPT ![p] = NoLocal]
    /\ ret' = [ret EXCEPT ![p] = NoRet]
    /\ pre' = [pre EXCEPT ![p] = NoPre]
    /\ UNCHANGED <<env, now, comments, reactions, users, pend>>

\* ------------------------------------------------------ read-only calls
\* The read-only functions run one or more SELECTs through execute_query
\* on the committed tables; each is one step of the caller.

\* get_comment_count(post_id), imported from db: the number of comments
\* of the post.
get_comment_count(C, post) ==
    Cardinality({c \in DOMAIN C : C[c].post_id = post})

\* WHERE post_id = ? ORDER BY timestamp ASC: the arrangements of the
\* post's rows in which timestamps never decrease.  The statement names
\* no second sort key, so the store may return rows of equal timestamp in
\* any order.
OrderByTimestamp(C, post) ==
    LET S == {c \in DOMAIN C : C[c].post_id = post}
        n == Cardinality(S)
    IN {s \in [1..n -> S] :
          /\ \A i, j \in 1..n : i # j => s[i] # s[j]
          /\ \A i, j \in 1..n : i < j => C[s[i]].timestamp <= C[s[j]].timestamp}

Min(a, b) == IF a < b THEN a ELSE b

\* Variant: the rows are numbered after LIMIT/OFFSET has cut the page.
CommentsQueryNumberedInPage(s, limit, offset) ==
    LET hi == Min(offset + limit, Len(s))
    IN [k \in 1..(IF hi > offset THEN hi - offset ELSE 0) |->
          [comment_id |-> s[offset + k], comment_number |-> k]]

\* Lines 85-106: ROW_NUMBER() OVER (ORDER BY timestamp ASC) numbers the
\* post's whole ordered row set s, then LIMIT/OFFSET cuts the page.
CommentsQuery(s, limit, offset) ==
    LET hi == Min(offset + limit, Len(s))
    IN [k \in 1..(IF hi > offset THEN hi - offset ELSE 0) |->
          [comment_id |-> s[offset + k], comment_number |-> offset + k]]

NoOriginal == [comment_id |-> None, content |-> "", timestamp |-> 0]

\* Lines 119-141: the dict built for one row.  has_original tells whether
\* the key 'original_comment' is in the dict.
CommentData(C, c, n) ==
    LET parent_comment_id == C[c].parent_comment_id
        original == Truthy(parent_comment_id) /\ parent_comment_id \in DOMAIN C
    IN [comment_id |-> c,
        content |-> C[c].content,
        timestamp |-> C[c].timestamp,
        likes |-> C[c].likes,
        dislikes |-> C[c].dislikes,
        flagged |-> C[c].flagged,
        parent_comment_id |-> parent_comment_id,
        comment_number |-> n,
        is_reply |-> (parent_comment_id # None),
        has_original |-> original,
        original_comment |->
            IF original
            THEN [comment_id |-> parent_comment_id,
                  content |-> C[parent_comment_id].content,
                  timestamp |-> C[parent_comment_id].timestamp]
            ELSE NoOriginal]

NoList == [comments |-> <<>>, page |-> 0, total_pages |-> 0, total_comments |-> 0]

\* get_comments_paginated(post_id, page), the store having answered the
\* ORDER BY with arrangement s: (comments_flat, page, total_pages,
\* total_comments).
get_comments_paginated(C, post, page, s) ==
    LET offset == (page - 1) * COMMENTS_PER_PAGE
        total_comments == get_comment_count(C, post)
        rows == CommentsQuery(s, COMMENTS_PER_PAGE, offset)
        total_pages == (total_comments + COMMENTS_PER_PAGE - 1) \div COMMENTS_PER_PAGE
    IN [comments |-> [k \in DOMAIN rows |->
                        CommentData(C, rows[k].comment_id, rows[k].comment_number)],
        page |-> page,
        total_pages |-> total_pages,
        total_comments |-> total_comments]

\* get_comment_sequential_number(comment_id): None for an unknown comment,
\* else COUNT(*) of the post's comments with timestamp <= the comment's.
get_comment_sequential_number(C, c) ==
    IF c \notin DOMAIN C THEN None
    ELSE Cardinality({d \in DOMAIN C :
                        /\ C[d].post_id = C[c].post_id
                        /\ C[d].timestamp <= C[c].timestamp})

NoParent ==
    [none |-> TRUE, comment_id |-> None, post_id |-> 0, content |-> "",
     timestamp |-> 0, sequential_number |-> None]

\* Variant: the sequential number is taken of the reply, not of its parent.
get_parent_comment_for_reply_own_number(C, c) ==
    IF c \notin DOMAIN C \/ ~Truthy(C[c].parent_comment_id) THEN NoParent
    ELSE LET parent_comment_id == C[c].parent_comment_id
         IN IF parent_comment_id \in DOMAIN C
            THEN [none |-> FALSE,
                  comment_id |-> parent_comment_id,
                  post_id |-> C[parent_comment_id].post_id,
                  content |-> C[parent_comment_id].content,
                  timestamp |-> C[parent_comment_id].timestamp,
                  sequential_number |-> get_comment_sequential_number(C, c)]
            ELSE NoParent

\* get_parent_comment_for_reply(comment_id); none stands for Python's None.
get_parent_comment_for_reply(C, c) ==
    IF c \notin DOMAIN C \/ ~Truthy(C[c].parent_comment_id) THEN NoParent
    ELSE LET parent_comment_id == C[c].parent_comment_id
         IN IF parent_comment_id \in DOMAIN C
            THEN [none |-> FALSE,
                  comment_id |-> parent_comment_id,
                  post_id |-> C[parent_comment_id].post_id,
                  content |-> C[parent_comment_id].content,
                  timestamp |-> C[parent_comment_id].timestamp,
                  sequential_number |->
                      get_comment_sequential_number(C, parent_comment_id)]
            ELSE NoParent

NoLoc == [none |-> TRUE, page |-> 0, post_id |-> 0, comment_id |-> None]

\* Variant: the count query without `parent_comment_id IS NULL`.
find_comment_page_counting_replies(C, c) ==
    IF c \notin DOMAIN C THEN NoLoc
    ELSE LET post_id == C[c].post_id
             parent_comment_id == C[c].parent_comment_id
             target_comment_id ==
                 IF Truthy(parent_comment_id) THEN parent_comment_id ELSE c
             comments_before ==
                 Cardinality({d \in DOMAIN C :
                                /\ C[d].post_id = post_id
                                /\ d < target_comment_id})
         IN [none |-> FALSE,
             page |-> (comments_before \div COMMENTS_PER_PAGE) + 1,
             post_id |-> post_id,
             comment_id |-> target_comment_id]

\* find_comment_page(comment_id); none stands for Python's None.
find_comment_page(C, c) ==
    IF c \notin DOMAIN C THEN NoLoc
    ELSE LET post_id == C[c].post_id
             parent_comment_id == C[c].parent_comment_id
             target_comment_id ==
                 IF Truthy(parent_comment_id) THEN parent_comment_id ELSE c
             comments_before ==
                 Cardinality({d \in DOMAIN C :
                                /\ C[d].post_id = post_id
                                /\ C[d].parent_comment_id = None
                                /\ d < target_comment_id})
         IN [none |-> FALSE,
             page |-> (comments_before \div COMMENTS_PER_PAGE) + 1,
             post_id |-> post_id,
             comment_id |-> target_comment_id]

\* Lines 153-160: SELECT * FROM comments WHERE comment_id = ?, the row or
\* None.
NoComment == [none |-> TRUE, comment_id |-> None, row |-> NoRow]

get_comment_by_id(C, c) ==
    IF c \in DOMAIN C
    THEN [none |-> FALSE, comment_id |-> c, row |-> C[c]]
    ELSE NoComment

\* Lines 63-71: SELECT post_id, content, category, channel_message_id,
\* approved FROM posts WHERE post_id = ?, the row or None.  The text and
\* the category of a post play no part in this module and are left out.
NoPost == [none |-> TRUE, post_id |-> None, channel_message_id |-> None,
           approved |-> FALSE]

get_post_with_channel_info(post) ==
    IF post \in DOMAIN Posts
    THEN [none |-> FALSE, post_id |-> post,
          channel_message_id |-> Posts[post].channel_message_id,
          approved |-> Posts[post].approved]
    ELSE NoPost

NoOut ==
    [op |-> "", post |-> 0, page |-> 0, cid |-> 0, list |-> NoList,
     number |-> None, parent |-> NoParent, loc |-> NoLoc,
     data |-> "", screen |-> "",
     user |-> 0, comment |-> NoComment, info |-> NoPost, reaction |-> ""]

NoChan == [requests |-> 0, shown |-> None]

\* before: the channel as it was when the call started.
NoSync ==
    [comment_count |-> 0, requests |-> 0, kind |-> "", outcome |-> "",
     before |-> [m \in MessageIds |-> NoChan]]

\* A read-only call returns: nothing but the caller's position changes.
ReadOnly(p, op) ==
    /\ pc' = [pc EXCEPT ![p] = "done"]
    /\ call' = [call EXCEPT ![p] = [NoCall EXCEPT !.op = op]]
    /\ UNCHANGED <<env, now, comments, reactions, users, local, pend,
                   ret, pre, prev, chan, sync>>

\* A call that works on the store supersedes the last value read.
Quiet == out' = NoOut /\ UNCHANGED <<chan, sync>>

\* The caller asks for a page of a post.
GetCommentsPaginated(p) ==
    /\ pc[p] = "idle"
    /\ \E post \in env.posts, page \in 1..MaxPage :
         \E s \in OrderByTimestamp(comments, post) :
            out' = [NoOut EXCEPT !.op = "list", !.post = post, !.page = page,
                       !.list = get_comments_paginated(comments, post, page, s)]
    /\ ReadOnly(p, "list")

GetCommentSequentialNumber(p) ==
    /\ pc[p] = "idle"
    /\ \E c \in 1..env.maxComments :
         out' = [NoOut EXCEPT !.op = "number", !.cid = c,
                    !.number = get_comment_sequential_number(comments, c)]
    /\ ReadOnly(p, "number")

GetParentCommentForReply(p) ==
    /\ pc[p] = "idle"
    /\ \E c \in 1..env.maxComments :
         out' = [NoOut EXCEPT !.op = "parent", !.cid = c,
                    !.parent = get_parent_comment_for_reply(comments, c)]
    /\ ReadOnly(p, "parent")

FindCommentPage(p) ==
    /\ pc[p] = "idle"
    /\ \E c \in 1..env.maxComments :
         out' = [NoOut EXCEPT !.op = "locate", !.cid = c,
                    !.loc = find_comment_page(comments, c)]
    /\ ReadOnly(p, "locate")

GetCommentById(p) ==
    /\ pc[p] = "idle"
    /\ \E c \in 1..env.maxComments :
         out' = [NoOut EXCEPT !.op = "comment", !.cid = c,
                    !.comment = get_comment_by_id(comments, c)]
    /\ ReadOnly(p, "comment")

GetPostWithChannelInfo(p) ==
    /\ pc[p] = "idle"
    /\ \E post \in env.posts :
         out' = [NoOut EXCEPT !.op = "post", !.post = post,
                    !.info = get_post_with_channel_info(post)]
    /\ ReadOnly(p, "post")

GetUserReaction(p) ==
    /\ pc[p] = "idle"
    /\ \E u \in Users, c \in 1..env.maxComments :
         \E e \in get_user_reaction(reactions, u, c) :
            out' = [NoOut EXCEPT !.op = "reaction", !.user = u, !.cid = c,
                       !.reaction = e]
    /\ ReadOnly(p, "reaction")

\* The store's clock advances between statements.
Tick ==
    /\ now < MaxTime
    /\ now' = now + 1
    /\ UNCHANGED <<env, comments, reactions, users, pc, call, local, pend,
                   ret, pre, prev, out, chan, sync>>

\* --------------------------------- update_channel_message_comment_count
\* update_channel_message_comment_count(context, post_id) is called.
SyncBegin(p) ==
    /\ pc[p] = "idle"
    /\ \A m \in MessageIds : chan[m].requests < MaxRequests
    /\ \E post \in env.posts :
         call' = [call EXCEPT ![p] = [NoCall EXCEPT !.op = "sync", !.post = post]]
    /\ sync' = [sync EXCEPT ![p] = [NoSync EXCEPT !.before = chan]]
    /\ pre' = [pre EXCEPT ![p] =
                 IF env.track
                 THEN [comments |-> comments, reactions |-> reactions, users |-> users]
                 ELSE NoPre]
    /\ pc' = [pc EXCEPT ![p] = "s_post"]
    /\ UNCHANGED <<env, now, comments, reactions, users, local, pend, ret, prev,
                   out, chan>>

\* Line 360: not post_info or not post_info[3].
NoChannelMessage(post) ==
    post \notin DOMAIN Posts \/ ~Truthy(Posts[post].channel_message_id)

\* Variant: the test `if approved != 1` left out.
SyncPostAnyApproval(p) ==
    /\ pc[p] = "s_post"
    /\ IF NoChannelMessage(call[p].post)
       THEN /\ ret' = [ret EXCEPT ![p] = [NoRet EXCEPT !.action = "no_channel_message"]]
            /\ pc' = [pc EXCEPT ![p] = "done"]
       ELSE /\ pc' = [pc EXCEPT ![p] = "s_count"]
            /\ UNCHANGED ret
    /\ UNCHANGED <<env, now, comments, reactions, users, call, local, pend, pre,
                   prev, out, chan, sync>>

\* Lines 356-366: the post is read; without a row or a channel message,
\* or when not approved, the function returns False.
SyncPost(p) ==
    /\ pc[p] = "s_post"
    /\ IF NoChannelMessage(call[p].post)
       THEN /\ ret' = [ret EXCEPT ![p] = [NoRet EXCEPT !.action = "no_channel_message"]]
            /\ pc' = [pc EXCEPT ![p] = "done"]
       ELSE IF ~Posts[call[p].post].approved
       THEN /\ ret' = [ret EXCEPT ![p] = [NoRet EXCEPT !.action = "not_approved"]]
            /\ pc' = [pc EXCEPT ![p] = "done"]
       ELSE /\ pc' = [pc EXCEPT ![p] = "s_count"]
            /\ UNCHANGED ret
    /\ UNCHANGED <<env, now, comments, reactions, users, call, local, pend, pre,
                   prev, out, chan, sync>>

\* Lines 368-369: comment_count = get_comment_count(post_id).
SyncCount(p) ==
    /\ pc[p] = "s_count"
    /\ sync' = [sync EXCEPT ![p].comment_count =
                                get_comment_count(comments, call[p].post)]
    /\ pc' = [pc EXCEPT ![p] = "s_edit"]
    /\ UNCHANGED <<env, now, comments, reactions, users, call, local, pend, ret,
                   pre, prev, out, chan>>

\* One awaited edit request for channel message m showing count n: the
\* channel has received it; it is applied (ok) or raises.
EditRequest(m, n, ok) ==
    [chan EXCEPT ![m] = [requests |-> @.requests + 1,
                         shown |-> IF ok THEN n ELSE @.shown]]

\* Variant: a request that raises is sent once more.
SyncEditRetry(p) ==
    /\ pc[p] = "s_edit"
    /\ \E media \in BOOLEAN, media_info \in BOOLEAN, ok \in BOOLEAN :
         LET m == Posts[call[p].post].channel_message_id
             n == sync[p].comment_count
             first == EditRequest(m, n, ok)
         IN /\ chan' = IF ok THEN first
                       ELSE [first EXCEPT ![m].requests = @ + 1]
            /\ sync' = [sync EXCEPT
                          ![p].requests = @ + (IF ok THEN 1 ELSE 2),
                          ![p].kind = IF media /\ media_info THEN "caption" ELSE "text",
                          ![p].outcome = IF ok THEN "ok" ELSE "raised"]
            /\ ret' = [ret EXCEPT ![p] =
                         IF ok THEN [NoRet EXCEPT !.ok = TRUE, !.action = "updated"]
                         ELSE [NoRet EXCEPT !.action = "error"]]
    /\ pc' = [pc EXCEPT ![p] = "done"]
    /\ UNCHANGED <<env, now, comments, reactions, users, call, local, pend, pre,
                   prev, out>>

\* Lines 392-433: the message is edited by edit_message_caption (a media
\* post with media info) or edit_message_text; the function returns True
\* after the await, or False from the except clause when the request
\* raises.
SyncEdit(p) ==
    /\ pc[p] = "s_edit"
    /\ \E media \in BOOLEAN, media_info \in BOOLEAN, ok \in BOOLEAN :
         LET m == Posts[call[p].post].channel_message_id
             n == sync[p].comment_count
         IN /\ chan' = EditRequest(m, n, ok)
            /\ sync' = [sync EXCEPT
                          ![p].requests = @ + 1,
                          ![p].kind = IF media /\ media_info THEN "caption" ELSE "text",
                          ![p].outcome = IF ok THEN "ok" ELSE "raised"]
            /\ ret' = [ret EXCEPT ![p] =
                         IF ok THEN [NoRet EXCEPT !.ok = TRUE, !.action = "updated"]
                         ELSE [NoRet EXCEPT !.action = "error"]]
    /\ pc' = [pc EXCEPT ![p] = "done"]
    /\ UNCHANGED <<env, now, comments, reactions, users, call, local, pend, pre,
                   prev, out>>

\* The caller whose save_comment has succeeded calls
\* update_channel_message_comment_count(context, post_id) for the post it
\* commented on.
SyncAfterCreate(p) ==
    /\ pc[p] = "done"
    /\ call[p].op = "create"
    /\ ret[p].ok
    /\ \A m \in MessageIds : chan[m].requests < MaxRequests
    /\ call' = [call EXCEPT ![p] =
                  [NoCall EXCEPT !.op = "sync", !.post = call[p].post]]
    /\ sync' = [sync EXCEPT ![p] = [NoSync EXCEPT !.before = chan]]
    /\ local' = [local EXCEPT ![p] = NoLocal]
    /\ ret' = [ret EXCEPT ![p] = NoRet]
    /\ pc' = [pc EXCEPT ![p] = "s_post"]
    /\ UNCHANGED <<env, now, comments, reactions, users, pend, pre, prev,
                   out, chan>>

\* The caller takes the value a synchronizer call returned.
SyncReturn(p) ==
    /\ call[p].op = "sync"
    /\ Return(p)
    /\ sync' = [sync EXCEPT ![p] = NoSync]
    /\ UNCHANGED <<out, chan>>

\* ------------------------------------- enhanced_ranking_callback_handler
\* query.data values: those of the buttons of the ranking menu, the one
\* the handler test expects besides, and one of another menu.
CallbackData ==
    {"enhanced_ranking", "achievement_view_my", "rank_ladder",
     "rank_point_guide", "ranking_detailed_stats", "menu"}

\* src/boo/enhanced_ranking_ui.py lines 185-226: the branch the if/elif
\* chain of enhanced_ranking_callback_handler takes for data.
RankingBranch(data) ==
    CASE data = "enhanced_ranking" -> "show_enhanced_ranking_menu"
      [] data = "achievement_view_my" -> "achievements"
      [] data = "rank_ladder" -> "show_rank_ladder"
      [] data = "rank_point_guide" -> "show_point_guide"
      [] OTHER -> "Feature coming soon!"

\* A ranking callback query is answered and dispatched.
EnhancedRankingCallbackHandler(p) ==
    /\ pc[p] = "idle"
    /\ \E data \in CallbackData :
         out' = [NoOut EXCEPT !.op = "ranking", !.data = data,
                    !.screen = RankingBranch(data)]
    /\ ReadOnly(p, "ranking")

\* ------------------------------------------------------- specifications
InitStore ==
    /\ now = 1
    /\ comments = NoComments
    /\ reactions = NoReactions
    /\ users = [u \in Users |-> 0]
    /\ pc = [p \in AllProcs |-> "idle"]
    /\ call = [p \in AllProcs |-> NoCall]
    /\ local = [p \in AllProcs |-> NoLocal]
    /\ pend = [p \in AllProcs |-> NoPend]
    /\ ret = [p \in AllProcs |-> NoRet]
    /\ pre = [p \in AllProcs |-> NoPre]
    /\ prev = NoPrev
    /\ out = NoOut
    /\ chan = [m \in MessageIds |-> NoChan]
    /\ sync = [p \in AllProcs |-> NoSync]

\* One caller at a time, on either backend: reactions by every user on
\* comments that user 1 creates on post 1.
Init ==
    /\ InitStore
    /\ \E b \in BOOLEAN :
        env = [use_postgresql |-> b, procs |-> {1}, track |-> TRUE,
               rtypes |-> {"like", "dislike"}, maxComments |-> MaxReactComments,
               maxDrift |-> MaxDrift,
               posts |-> {1}, authors |-> {1}, parents |-> {None},
               contents |-> {"a"}]

\* One caller at a time, on either backend: comment creation with every
\* post, author and parent argument.
InitCreate ==
    /\ InitStore
    /\ \E b \in BOOLEAN :
        env = [use_postgresql |-> b, procs |-> {1}, track |-> TRUE,
               rtypes |-> {"like", "dislike"}, maxComments |-> MaxComments,
               maxDrift |-> MaxDrift,
               posts |-> PostInputs, authors |-> Users, parents |-> ParentInputs,
               contents |-> {"a"}]

\* Concurrent callers, on either backend.
InitConc ==
    /\ InitStore
    /\ \E b \in BOOLEAN :
        env = [use_postgresql |-> b, procs |-> AllProcs, track |-> FALSE,
               rtypes |-> {"like", "dislike"}, maxComments |-> MaxConcComments,
               maxDrift |-> MaxConcDrift,
               posts |-> {1}, authors |-> {1}, parents |-> {None},
               contents |-> {"a"}]

\* One caller at a time, on either backend: comments and replies of two
\* texts on posts 1 and 2 while the clock advances, read back page by page.
InitList ==
    /\ InitStore
    /\ \E b \in BOOLEAN :
        env = [use_postgresql |-> b, procs |-> {1}, track |-> FALSE,
               rtypes |-> {"like", "dislike"}, maxComments |-> MaxListComments,
               maxDrift |-> MaxDrift,
               posts |-> {1, 2}, authors |-> {1},
               parents |-> {None, 0} \cup 1..(MaxListComments - 1),
               contents |-> {"a", "b"}]

\* One caller at a time, on either backend: comments and replies to
\* existing comments on posts 1 and 2 while the clock advances, located by
\* find_comment_page.
InitNav ==
    /\ InitStore
    /\ \E b \in BOOLEAN :
        env = [use_postgresql |-> b, procs |-> {1}, track |-> FALSE,
               rtypes |-> {"like", "dislike"}, maxComments |-> MaxNavComments,
               maxDrift |-> MaxDrift,
               posts |-> {1, 2}, authors |-> {1},
               parents |-> {None} \cup 1..(MaxNavComments - 1),
               contents |-> {"a"}]

\* One caller at a time, on either backend: likes by every user and flags
\* on comments that user 1 creates on post 1.
InitFlag ==
    /\ InitStore
    /\ \E b \in BOOLEAN :
        env = [use_postgresql |-> b, procs |-> {1}, track |-> TRUE,
               rtypes |-> {"like"}, maxComments |-> MaxFlagComments,
               maxDrift |-> MaxFlagDrift,
               posts |-> {1}, authors |-> {1}, parents |-> {None},
               contents |-> {"a"}]

\* One caller at a time, on either backend: comments by user 1 on every
\* post argument, and the synchronizer called for every post argument.
InitSync ==
    /\ InitStore
    /\ \E b \in BOOLEAN :
        env = [use_postgresql |-> b, procs |-> {1}, track |-> TRUE,
               rtypes |-> {"like", "dislike"}, maxComments |-> MaxSyncComments,
               maxDrift |-> MaxDrift,
               posts |-> PostInputs, authors |-> {1}, parents |-> {None},
               contents |-> {"a"}]

\* Concurrent callers, on either backend, liking and unliking a comment
\* that user 1 has posted on post 1 before they start.
InitRace ==
    /\ now = 1
    /\ comments = [i \in {1} |-> NewComment(1, "a", 1, None)]
    /\ reactions = NoReactions
    /\ users = [u \in Users |-> IF u = 1 THEN 1 ELSE 0]
    /\ pc = [p \in AllProcs |-> "idle"]
    /\ call = [p \in AllProcs |-> NoCall]
    /\ local = [p \in AllProcs |-> NoLocal]
    /\ pend = [p \in AllProcs |-> NoPend]
    /\ ret = [p \in AllProcs |-> NoRet]
    /\ pre = [p \in AllProcs |-> NoPre]
    /\ prev = NoPrev
    /\ out = NoOut
    /\ chan = [m \in MessageIds |-> NoChan]
    /\ sync = [p \in AllProcs |-> NoSync]
    /\ \E b \in BOOLEAN :
        env = [use_postgresql |-> b, procs |-> AllProcs, track |-> FALSE,
               rtypes |-> {"like"}, maxComments |-> MaxRaceComments,
               maxDrift |-> MaxRaceDrift,
               posts |-> {1}, authors |-> {1}, parents |-> {None},
               contents |-> {"a"}]

\* One caller at a time, on either backend: top-level comments with every
\* post and author argument, and presses of the ranking menu's buttons.
InitRank ==
    /\ InitStore
    /\ \E b \in BOOLEAN :
        env = [use_postgresql |-> b, procs |-> {1}, track |-> FALSE,
               rtypes |-> {"like", "dislike"}, maxComments |-> MaxComments,
               maxDrift |-> MaxDrift,
               posts |-> PostInputs, authors |-> Users, parents |-> {None},
               contents |-> {"a"}]

\* One caller at a time, on either backend: every operation of the
\* module on the comments that user 1 creates on post 1, likes by every
\* user.
InitFrame ==
    /\ InitStore
    /\ \E b \in BOOLEAN :
        env = [use_postgresql |-> b, procs |-> {1}, track |-> FALSE,
               rtypes |-> {"like"}, maxComments |-> MaxFrameComments,
               maxDrift |-> MaxFrameDrift,
               posts |-> {1}, authors |-> {1}, parents |-> {None},
               contents |-> {"a"}]

\* One caller at a time, on either backend: reactions of every
\* reaction_type value by every user on a comment that user 1 creates on
\* post 1.
InitTypes ==
    /\ InitStore
    /\ \E b \in BOOLEAN :
        env = [use_postgresql |-> b, procs |-> {1}, track |-> TRUE,
               rtypes |-> AllTypes, maxComments |-> MaxTypeComments,
               maxDrift |-> MaxTypeDrift,
               posts |-> {1}, authors |-> {1}, parents |-> {None},
               contents |-> {"a"}]

\* Concurrent callers, on either backend, each commenting as user 1 on
\* post 1 and then refreshing the post's channel message.
InitChannel ==
    /\ InitStore
    /\ \E b \in BOOLEAN :
        env = [use_postgresql |-> b, procs |-> AllProcs, track |-> FALSE,
               rtypes |-> {"like"}, maxComments |-> MaxChannelComments,
               maxDrift |-> MaxDrift,
               posts |-> {1}, authors |-> {1}, parents |-> {None},
               contents |-> {"a"}]

Next ==
    \E p \in env.procs :
        \/ ReactBegin(p) /\ Quiet
        \/ ReactCheck(p) /\ Quiet
        \/ ReactRow(p) /\ Quiet
        \/ ReactCount(p) /\ Quiet
        \/ ReactCommit(p) /\ Quiet
        \/ ReactRead(p) /\ Quiet
        \/ ReactExit(p) /\ Quiet
        \/ CreateBegin(p) /\ Quiet
        \/ CreatePostCheck(p) /\ Quiet
        \/ CreateParentCheck(p) /\ Quiet
        \/ CreateInsert(p) /\ Quiet
        \/ CreateUserUpdate(p) /\ Quiet
        \/ CreateCommit(p) /\ Quiet
        \/ CreateExit(p) /\ Quiet
        \/ Fail(p) /\ Quiet
        \/ Return(p) /\ Quiet

NextCreate ==
    \E p \in env.procs :
        \/ CreateBegin(p) /\ Quiet
        \/ CreatePostCheck(p) /\ Quiet
        \/ CreateParentCheck(p) /\ Quiet
        \/ CreateInsert(p) /\ Quiet
        \/ CreateUserUpdate(p) /\ Quiet
        \/ CreateCommit(p) /\ Quiet
        \/ CreateExit(p) /\ Quiet
        \/ Fail(p) /\ Quiet
        \/ Return(p) /\ Quiet

NextList ==
    \/ Tick
    \/ \E p \in env.procs :
        \/ CreateBegin(p) /\ Quiet
        \/ CreatePostCheck(p) /\ Quiet
        \/ CreateParentCheck(p) /\ Quiet
        \/ CreateInsert(p) /\ Quiet
        \/ CreateUserUpdate(p) /\ Quiet
        \/ CreateCommit(p) /\ Quiet
        \/ CreateExit(p) /\ Quiet
        \/ Fail(p) /\ Quiet
        \/ Return(p) /\ Quiet
        \/ GetCommentsPaginated(p)
        \/ GetCommentSequentialNumber(p)
        \/ GetParentCommentForReply(p)
        \/ FindCommentPage(p)

NextNav ==
    \/ Tick
    \/ \E p \in env.procs :
        \/ CreateBegin(p) /\ Quiet
        \/ CreatePostCheck(p) /\ Quiet
        \/ CreateParentCheck(p) /\ Quiet
        \/ CreateInsert(p) /\ Quiet
        \/ CreateUserUpdate(p) /\ Quiet
        \/ CreateCommit(p) /\ Quiet
        \/ CreateExit(p) /\ Quiet
        \/ Fail(p) /\ Quiet
        \/ Return(p) /\ Quiet
        \/ FindCommentPage(p)

NextFlag ==
    \E p \in env.procs :
        \/ ReactBegin(p) /\ Quiet
        \/ ReactCheck(p) /\ Quiet
        \/ ReactRow(p) /\ Quiet
        \/ ReactCount(p) /\ Quiet
        \/ ReactCommit(p) /\ Quiet
        \/ ReactRead(p) /\ Quiet
        \/ ReactExit(p) /\ Quiet
        \/ CreateBegin(p) /\ Quiet
        \/ CreatePostCheck(p) /\ Quiet
        \/ CreateParentCheck(p) /\ Quiet
        \/ CreateInsert(p) /\ Quiet
        \/ CreateUserUpdate(p) /\ Quiet
        \/ CreateCommit(p) /\ Quiet
        \/ CreateExit(p) /\ Quiet
        \/ FlagBegin(p) /\ Quiet
        \/ FlagUpdate(p) /\ Quiet
        \/ Fail(p) /\ Quiet
        \/ Return(p) /\ Quiet

NextSync ==
    \E p \in env.procs :
        \/ CreateBegin(p) /\ Quiet
        \/ CreatePostCheck(p) /\ Quiet
        \/ CreateParentCheck(p) /\ Quiet
        \/ CreateInsert(p) /\ Quiet
        \/ CreateUserUpdate(p) /\ Quiet
        \/ CreateCommit(p) /\ Quiet
        \/ CreateExit(p) /\ Quiet
        \/ Fail(p) /\ Quiet
        \/ Return(p) /\ call[p].op # "sync" /\ Quiet
        \/ SyncBegin(p)
        \/ SyncPost(p)
        \/ SyncCount(p)
        \/ SyncEdit(p)
        \/ SyncReturn(p)

NextRace ==
    \E p \in env.procs :
        \/ ReactBegin(p) /\ Quiet
        \/ ReactCheck(p) /\ Quiet
        \/ ReactRow(p) /\ Quiet
        \/ ReactCount(p) /\ Quiet
        \/ ReactCommit(p) /\ Quiet
        \/ ReactRead(p) /\ Quiet
        \/ ReactExit(p) /\ Quiet
        \/ Fail(p) /\ Quiet
        \/ Return(p) /\ Quiet

NextRank ==
    \E p \in env.procs :
        \/ CreateBegin(p) /\ Quiet
        \/ CreatePostCheck(p) /\ Quiet
        \/ CreateParentCheck(p) /\ Quiet
        \/ CreateInsert(p) /\ Quiet
        \/ CreateUserUpdate(p) /\ Quiet
        \/ CreateCommit(p) /\ Quiet
        \/ CreateExit(p) /\ Quiet
        \/ Fail(p) /\ Quiet
        \/ Return(p) /\ Quiet
        \/ EnhancedRankingCallbackHandler(p)

NextFrame ==
    \E p \in env.procs :
        \/ ReactBegin(p) /\ Quiet
        \/ ReactCheck(p) /\ Quiet
        \/ ReactRow(p) /\ Quiet
        \/ ReactCount(p) /\ Quiet
        \/ ReactCommit(p) /\ Quiet
        \/ ReactRead(p) /\ Quiet
        \/ ReactExit(p) /\ Quiet
        \/ CreateBegin(p) /\ Quiet
        \/ CreatePostCheck(p) /\ Quiet
        \/ CreateParentCheck(p) /\ Quiet
        \/ CreateInsert(p) /\ Quiet
        \/ CreateUserUpdate(p) /\ Quiet
        \/ CreateCommit(p) /\ Quiet
        \/ CreateExit(p) /\ Quiet
        \/ FlagBegin(p) /\ Quiet
        \/ FlagUpdate(p) /\ Quiet
        \/ Fail(p) /\ Quiet
        \/ Return(p) /\ call[p].op # "sync" /\ Quiet
        \/ SyncBegin(p)
        \/ SyncPost(p)
        \/ SyncCount(p)
        \/ SyncEdit(p)
        \/ SyncReturn(p)
        \/ GetCommentById(p)
        \/ GetPostWithChannelInfo(p)
        \/ GetUserReaction(p)
        \/ GetCommentsPaginated(p)
        \/ GetCommentSequentialNumber(p)
        \/ GetParentCommentForReply(p)
        \/ FindCommentPage(p)

\* Every successful save_comment is followed by the synchronizer.
NextChannel ==
    \E p \in env.procs :
        \/ CreateBegin(p) /\ Quiet
        \/ CreatePostCheck(p) /\ Quiet
        \/ CreateParentCheck(p) /\ Quiet
        \/ CreateInsert(p) /\ Quiet
        \/ CreateUserUpdate(p) /\ Quiet
        \/ CreateCommit(p) /\ Quiet
        \/ CreateExit(p) /\ Quiet
        \/ Fail(p) /\ Quiet
        \/ Return(p) /\ call[p].op = "create" /\ ~ret[p].ok /\ Quiet
        \/ SyncAfterCreate(p)
        \/ SyncPost(p)
        \/ SyncCount(p)
        \/ SyncEdit(p)
        \/ SyncReturn(p)

Spec == Init /\ [][Next]_vars

SpecChannel == InitChannel /\ [][NextChannel]_vars

SpecFrame == InitFrame /\ [][NextFrame]_vars

SpecTypes == InitTypes /\ [][Next]_vars

SpecList == InitList /\ [][NextList]_vars

SpecNav == InitNav /\ [][NextNav]_vars

SpecFlag == InitFlag /\ [][NextFlag]_vars

SpecSync == InitSync /\ [][NextSync]_vars

SpecRace == InitRace /\ [][NextRace]_vars

SpecRank == InitRank /\ [][NextRank]_vars

SpecCreate == InitCreate /\ [][NextCreate]_vars

SpecConc == InitConc /\ [][Next]_vars

\* ------------------------------------------------------------ properties
AtDone(p, op) == p \in env.procs /\ pc[p] = "done" /\ call[p].op = op

\* The reaction state of (u, c) in table R: "none", or the row's type.
StateOf(R, u, c) ==
    IF RowCount(R, u, c) = 0 THEN "none"
    ELSE CHOOSE x \in AllTypes : R[<<u, c, x>>] > 0

\* C1: every comment's likes is the number of like rows targeting it and
\* its dislikes the number of dislike rows, in every committed state reached
\* by react and createComment calls made one after another.
C1_CountersMatchRows ==
    \A c \in DOMAIN comments :
        /\ comments[c].likes = TypeCount(reactions, c, "like")
        /\ comments[c].dislikes = TypeCount(reactions, c, "dislike")

\* The six rows of the reaction state machine, as the design states them.
TransitionTable(from, t) ==
    CASE from = "none" /\ t = "like" ->
            [to |-> "like", dl |-> 1, dd |-> 0, action |-> "added"]
      [] from = "none" /\ t = "dislike" ->
            [to |-> "dislike", dl |-> 0, dd |-> 1, action |-> "added"]
      [] from = "like" /\ t = "like" ->
            [to |-> "none", dl |-> -1, dd |-> 0, action |-> "removed"]
      [] from = "like" /\ t = "dislike" ->
            [to |-> "dislike", dl |-> -1, dd |-> 1, action |-> "changed"]
      [] from = "dislike" /\ t = "dislike" ->
            [to |-> "none", dl |-> 0, dd |-> -1, action |-> "removed"]
      [] from = "dislike" /\ t = "like" ->
            [to |-> "like", dl |-> 1, dd |-> -1, action |-> "changed"]

\* C2: a react(u, c, t) that returns ok on an existing comment, t like or
\* dislike, has moved (u, c) along its row of the transition table: the
\* state get_user_reaction reports, the change of the two counters and the
\* returned actionTaken are those of the row.
C2_TransitionTable ==
    \A p \in AllProcs :
        (/\ AtDone(p, "react")
         /\ ret[p].ok
         /\ call[p].rtype \in {"like", "dislike"}
         /\ call[p].cid \in DOMAIN pre[p].comments)
        => LET u == call[p].user
               c == call[p].cid
               row == TransitionTable(StateOf(pre[p].reactions, u, c), call[p].rtype)
           IN /\ get_user_reaction(reactions, u, c) = {row.to}
              /\ comments[c].likes = pre[p].comments[c].likes + row.dl
              /\ comments[c].dislikes = pre[p].comments[c].dislikes + row.dd
              /\ ret[p].action = row.action

\* A react that switched a like to a dislike has returned "changed".
C2_Witness ==
    \E p \in AllProcs :
        /\ AtDone(p, "react")
        /\ ret[p].ok
        /\ ret[p].action = "changed"
        /\ call[p].cid \in DOMAIN pre[p].comments
        /\ StateOf(pre[p].reactions, call[p].user, call[p].cid) = "like"

\* The running call is the second of two consecutive react(u, c, t), the
\* first of which found (u, c) in NoReaction.
SecondToggle(p) ==
    /\ AtDone(p, "react")
    /\ ret[p].ok
    /\ prev.user = call[p].user
    /\ prev.cid = call[p].cid
    /\ prev.rtype = call[p].rtype

\* C3: two consecutive successful react(u, c, t) from NoReaction leave
\* (u, c) without a reaction row and the counters of c at their values
\* before the first call.
C3_ToggleRoundTrip ==
    \A p \in AllProcs :
        SecondToggle(p)
        => /\ RowCount(reactions, call[p].user, call[p].cid) = 0
           /\ comments[call[p].cid].likes = prev.likes
           /\ comments[call[p].cid].dislikes = prev.dislikes

\* The second dislike of a pair has returned.
C3_Witness ==
    \E p \in AllProcs : SecondToggle(p) /\ call[p].rtype = "dislike"

C5_RowAndCounterTogether ==
    [][\A c \in DOMAIN comments \cap DOMAIN comments' :
          /\ comments'[c].likes - comments[c].likes
               = TypeCount(reactions', c, "like") - TypeCount(reactions, c, "like")
          /\ comments'[c].dislikes - comments[c].dislikes
               = TypeCount(reactions', c, "dislike") - TypeCount(reactions, c, "dislike")
      ]_vars

\* A react on an existing comment failed at the counter UPDATE, after its
\* row statement ran; the committed tables are those before the call.
C5_Witness ==
    \E p \in AllProcs :
        /\ AtDone(p, "react")
        /\ ~ret[p].ok
        /\ local[p].failedAt = "r_count"
        /\ call[p].cid \in DOMAIN comments
        /\ reactions = pre[p].reactions
        /\ comments = pre[p].comments

\* C6: a react that returns ok = false has left the reaction rows and the
\* counters as they were before the call (stated for the comments that
\* exist when the call starts).
C6_FailureLeavesState ==
    \A p \in AllProcs :
        (AtDone(p, "react") /\ ~ret[p].ok /\ call[p].cid \in DOMAIN pre[p].comments)
        => /\ reactions = pre[p].reactions
           /\ comments = pre[p].comments

\* C7: likes and dislikes are never negative.
C7_CountersNonNegative ==
    \A c \in DOMAIN comments :
        comments[c].likes >= 0 /\ comments[c].dislikes >= 0

\* C8: createComment on a post that does not exist or is not approved
\* returns an error and no id, inserts no row and changes no
\* comments_posted.
C8_UnapprovedPostRejected ==
    \A p \in AllProcs :
        (/\ AtDone(p, "create")
         /\ (call[p].post \notin DOMAIN Posts \/ ~Posts[call[p].post].approved))
        => /\ ~ret[p].ok
           /\ ret[p].id = None
           /\ comments = pre[p].comments
           /\ users = pre[p].users

\* createComment on the unapproved post 3 returned its not-found error.
C8_Witness ==
    \E p \in AllProcs :
        /\ AtDone(p, "create")
        /\ call[p].post = 3
        /\ ret[p].action = "post_not_found"

\* C9: createComment with a parentCommentId that references no existing
\* comment returns an error without inserting a row or changing
\* comments_posted, and every parent_comment_id that is set references an
\* existing comment.
C9_ParentValidated ==
    /\ \A p \in AllProcs :
        (/\ AtDone(p, "create")
         /\ call[p].parent # None
         /\ call[p].parent \notin DOMAIN pre[p].comments)
        => /\ ~ret[p].ok
           /\ comments = pre[p].comments
           /\ users = pre[p].users
    /\ \A c \in DOMAIN comments :
        comments[c].parent_comment_id # None
        => comments[c].parent_comment_id \in DOMAIN comments

\* Number of comment rows authored by user u.
Authored(C, u) == Cardinality({c \in DOMAIN C : C[c].user_id = u})

\* C10: comments_posted of every user is its initial value (0) plus the
\* number of rows the user authored, in every committed state; a
\* createComment that returns an id has added exactly that one row and 1 to
\* the author's counter, one that returns an error has changed neither.
C10_CommentsPostedExact ==
    /\ \A u \in Users : users[u] = Authored(comments, u)
    /\ \A p \in AllProcs :
        AtDone(p, "create")
        => IF ret[p].ok
           THEN /\ ret[p].id \notin DOMAIN pre[p].comments
                /\ DOMAIN comments = DOMAIN pre[p].comments \cup {ret[p].id}
                /\ \A c \in DOMAIN pre[p].comments : comments[c] = pre[p].comments[c]
                /\ comments[ret[p].id].user_id = call[p].user
                /\ users = [pre[p].users EXCEPT ![call[p].user] = @ + 1]
           ELSE /\ comments = pre[p].comments
                /\ users = pre[p].users

\* A user's second comment has been created.
C10_Witness ==
    \E p \in AllProcs :
        /\ AtDone(p, "create")
        /\ ret[p].ok
        /\ users[call[p].user] = 2

\* -------------------------------------------------------------- listing
\* C11: get_comments_paginated on a post that has no comments returns
\* total_pages = 1, an empty list of items and total_comments = 0.
C11_EmptyPostOnePage ==
    \A p \in AllProcs :
        (AtDone(p, "list") /\ get_comment_count(comments, out.post) = 0)
        => /\ out.list.total_pages = 1
           /\ out.list.comments = <<>>
           /\ out.list.total_comments = 0

\* The post's comments by timestamp ascending, comments of equal timestamp
\* in insertion order (comment ids are assigned in insertion order).
InsertionOrder(C, post) ==
    CHOOSE s \in OrderByTimestamp(C, post) :
        \A i, j \in DOMAIN s :
            (i < j /\ C[s[i]].timestamp = C[s[j]].timestamp) => s[i] < s[j]

\* C12: for 1 <= page <= total_pages, get_comments_paginated returns the
\* comments at positions (page-1)*COMMENTS_PER_PAGE+1 .. min(page*
\* COMMENTS_PER_PAGE, total) of the post's comments by timestamp ascending,
\* ties in insertion order, with total_comments the number of comments of
\* the post and total_pages = ceil(total_comments / COMMENTS_PER_PAGE).
C12_PageContents ==
    \A p \in AllProcs :
        (AtDone(p, "list") /\ out.page \in 1..out.list.total_pages)
        => LET s == InsertionOrder(comments, out.post)
               total == Cardinality({c \in DOMAIN comments :
                                       comments[c].post_id = out.post})
               lo == (out.page - 1) * COMMENTS_PER_PAGE + 1
               hi == Min(out.page * COMMENTS_PER_PAGE, total)
           IN /\ [k \in DOMAIN out.list.comments |->
                    out.list.comments[k].comment_id]
                 = [k \in 1..(hi - lo + 1) |-> s[lo + k - 1]]
              /\ out.list.total_comments = total
              /\ out.list.total_pages * COMMENTS_PER_PAGE >= total
              /\ (out.list.total_pages - 1) * COMMENTS_PER_PAGE < total

\* C13: the comment_number of every item get_comments_paginated returns is
\* the item's 1-based rank in the timestamp-ascending order of all the
\* comments of the post, not its rank within the page: the k-th item of
\* page p has number (p-1)*COMMENTS_PER_PAGE + k, more of the post's
\* comments than those with a smaller timestamp and no more than those
\* with a timestamp not larger.
C13_NumberIsRankInPost ==
    \A p \in AllProcs :
        AtDone(p, "list")
        => \A k \in DOMAIN out.list.comments :
             LET item == out.list.comments[k]
                 earlier == {c \in DOMAIN comments :
                               /\ comments[c].post_id = out.post
                               /\ comments[c].timestamp < item.timestamp}
                 notLater == {c \in DOMAIN comments :
                                /\ comments[c].post_id = out.post
                                /\ comments[c].timestamp <= item.timestamp}
             IN /\ item.comment_number = (out.page - 1) * COMMENTS_PER_PAGE + k
                /\ item.comment_number > Cardinality(earlier)
                /\ item.comment_number <= Cardinality(notLater)

\* The second page of a post with three comments of increasing timestamp
\* has been listed.
C13_Witness ==
    /\ AtDone(1, "list")
    /\ out.page = 2
    /\ Len(out.list.comments) = 1
    /\ out.list.comments[1].comment_number = 3
    /\ out.list.comments[1].timestamp > 1

\* The keys of an item other than the parent projection.
ItemKeys ==
    {"comment_id", "content", "timestamp", "likes", "dislikes", "flagged",
     "parent_comment_id", "comment_number", "is_reply"}

\* C14: every item get_comments_paginated returns has is_reply true
\* exactly when its parent_comment_id is not None; every item with
\* is_reply true carries the projection original_comment holding the
\* comment_id, content and timestamp of the comment parent_comment_id
\* refers to; and an item has no key holding a list of children.
C14_FlatReplyProjection ==
    \A p \in AllProcs :
        AtDone(p, "list")
        => \A k \in DOMAIN out.list.comments :
             LET item == out.list.comments[k]
                 parent == item.parent_comment_id
             IN /\ item.is_reply <=> (parent # None)
                /\ item.is_reply =>
                     /\ item.has_original
                     /\ parent \in DOMAIN comments
                     /\ item.original_comment =
                          [comment_id |-> parent,
                           content |-> comments[parent].content,
                           timestamp |-> comments[parent].timestamp]
                /\ DOMAIN item = ItemKeys \cup {"has_original", "original_comment"}

C16_ReplyOnParentPage ==
    \A p \in AllProcs :
        (/\ AtDone(p, "locate")
         /\ out.cid \in DOMAIN comments
         /\ comments[out.cid].parent_comment_id \in DOMAIN comments)
        => /\ out.loc.page =
                find_comment_page(comments, comments[out.cid].parent_comment_id).page
           /\ out.loc.comment_id # out.cid

\* C17: for every comment c, the page find_comment_page(c) returns is the
\* page that shows the anchor (c itself when top-level, its parent when c
\* is a reply): get_comments_paginated of the returned post_id and page
\* has the anchor among its items, for at least one of the orders in which
\* the store may return comments of equal timestamp.
C17_LocatedPageShowsAnchor ==
    \A p \in AllProcs :
        (AtDone(p, "locate") /\ out.cid \in DOMAIN comments)
        => LET c == out.cid
               anchor == IF comments[c].parent_comment_id = None THEN c
                         ELSE comments[c].parent_comment_id
           IN \E s \in OrderByTimestamp(comments, out.loc.post_id) :
                LET shown == get_comments_paginated(
                                 comments, out.loc.post_id, out.loc.page, s).comments
                IN \E k \in DOMAIN shown : shown[k].comment_id = anchor

\* ------------------------------------------------------------- flagging
\* A flag_comment call that returned True left the flagged bit of its
\* comment set and nothing else changed; on a comment already flagged it
\* left the state as it was.
FlagSetsOnlyTheBit ==
    \A p \in AllProcs :
        (AtDone(p, "flag") /\ ret[p].ok)
        => LET c == call[p].cid
           IN /\ reactions = pre[p].reactions
              /\ users = pre[p].users
              /\ IF c \in DOMAIN pre[p].comments
                 THEN /\ comments[c].flagged
                      /\ comments = [pre[p].comments EXCEPT ![c].flagged = TRUE]
                      /\ pre[p].comments[c].flagged => comments = pre[p].comments
                 ELSE comments = pre[p].comments

\* No step of save_comment, react_to_comment or flag_comment clears a
\* flagged bit that is set.
FlaggedStays ==
    \A c \in DOMAIN comments : comments[c].flagged => comments'[c].flagged

\* C18: flag_comment is idempotent and monotonic: after flag_comment(c)
\* comment c is flagged; a second flag_comment(c) succeeds and leaves the
\* state of the first; no operation turns flagged from true back to false;
\* and flag_comment changes nothing but the flagged bit of comment c.
C18_FlagIdempotentMonotonic == [](FlagSetsOnlyTheBit) /\ [][FlaggedStays]_vars

\* A second flag_comment on a flagged comment has returned True, while
\* another comment that has been liked is not flagged.
C18_Witness ==
    /\ AtDone(1, "flag")
    /\ ret[1].ok
    /\ call[1].cid \in DOMAIN pre[1].comments
    /\ pre[1].comments[call[1].cid].flagged
    /\ \E d \in DOMAIN comments : ~comments[d].flagged /\ comments[d].likes > 0

\* -------------------------------------------------------- synchronizer
\* C19: update_channel_message_comment_count on a post that does not
\* exist, has no channel_message_id or is not approved returns False, has
\* sent no edit request to the channel and has changed no table.
C19_NoEditWithoutPreconditions ==
    \A p \in AllProcs :
        (/\ AtDone(p, "sync")
         /\ \/ call[p].post \notin DOMAIN Posts
            \/ Posts[call[p].post].channel_message_id = None
            \/ ~Posts[call[p].post].approved)
        => /\ ~ret[p].ok
           /\ sync[p].requests = 0
           /\ chan = sync[p].before
           /\ comments = pre[p].comments
           /\ reactions = pre[p].reactions
           /\ users = pre[p].users

\* The synchronizer has returned for the unapproved post 3, which has a
\* channel message, while post 1 has a comment.
C19_Witness ==
    /\ AtDone(1, "sync")
    /\ call[1].post = 3
    /\ ret[1].action = "not_approved"
    /\ get_comment_count(comments, 1) > 0

C21_ConcurrentReactsSerialize ==
    (\A p \in env.procs : pc[p] = "idle")
    => \A c \in DOMAIN comments :
         /\ comments[c].likes = TypeCount(reactions, c, "like")
         /\ comments[c].dislikes = TypeCount(reactions, c, "dislike")

\* -------------------------------------------------------- ranking menu
\* C22: enhanced_ranking_callback_handler takes a branch of its own for
\* each of rank_ladder, rank_point_guide, achievement_view_my and
\* ranking_detailed_stats; none of them ends in the fallback that answers
\* "Feature coming soon!".
C22_RankingCallbacksDispatched ==
    \A p \in AllProcs :
        (/\ AtDone(p, "ranking")
         /\ out.data \in {"rank_ladder", "rank_point_guide",
                          "achievement_view_my", "ranking_detailed_stats"})
        => /\ out.screen # "Feature coming soon!"
           /\ out.screen # RankingBranch("enhanced_ranking")

C24_AnchorTopLevelInPost ==
    \A p \in AllProcs :
        (AtDone(p, "locate") /\ ~out.loc.none)
        => /\ out.loc.comment_id \in DOMAIN comments
           /\ comments[out.loc.comment_id].parent_comment_id = None
           /\ comments[out.loc.comment_id].post_id = out.loc.post_id

\* The comment_number values get_comments_paginated may report for
\* comment c of table C: its places in the orders the store may answer.
CommentNumbers(C, c) ==
    {k \in 1..Cardinality(DOMAIN C) :
        \E s \in OrderByTimestamp(C, C[c].post_id) : k \in DOMAIN s /\ s[k] = c}

\* A step leaves, for every comment that exists, the value of
\* get_comment_sequential_number and the comment_number of the listing as
\* they were.
NumbersStay ==
    \A c \in DOMAIN comments :
        /\ get_comment_sequential_number(comments', c)
             = get_comment_sequential_number(comments, c)
        /\ CommentNumbers(comments', c) = CommentNumbers(comments, c)

\* C25: once a comment exists, its get_comment_sequential_number and its
\* comment_number in get_comments_paginated never change as further
\* comments are created on its post.
C25_NumberingStable == [][NumbersStay]_vars

\* Caller p takes a step of the operation op it is running.
Acting(p, op) == call[p].op = op /\ pc'[p] # pc[p]

\* A step changes reaction rows and counters only as a react step of the
\* key and the comment it was called with, and a react step changes no
\* other column of any comment.
FrameStep ==
    /\ DOMAIN comments \subseteq DOMAIN comments'
    /\ \A k \in ReactionKeys :
          reactions'[k] # reactions[k]
             => \E p \in env.procs :
                   /\ Acting(p, "react")
                   /\ k[1] = call[p].user
                   /\ k[2] = call[p].cid
    /\ \A c \in DOMAIN comments :
          (comments'[c].likes # comments[c].likes
              \/ comments'[c].dislikes # comments[c].dislikes)
             => \E p \in env.procs : Acting(p, "react") /\ c = call[p].cid
    /\ (\E p \in env.procs : Acting(p, "react"))
          => /\ DOMAIN comments' = DOMAIN comments
             /\ \A c \in DOMAIN comments :
                   /\ comments'[c].content = comments[c].content
                   /\ comments'[c].parent_comment_id = comments[c].parent_comment_id
                   /\ comments'[c].timestamp = comments[c].timestamp
                   /\ comments'[c].flagged = comments[c].flagged

\* C26: reaction rows and the likes/dislikes counters change only in a
\* react step, which changes only the rows of its (user, comment) and the
\* counters of its comment; save_comment, flag_comment, the synchronizer
\* and every read leave all rows and counters as they are, and a react step
\* leaves content, parent, timestamp and flagged of every comment as they
\* are.
C26_OnlyReactTouchesReactions == [][FrameStep]_vars

\* User 2 has liked comment 2 while comment 1 is flagged, liked by user 1
\* and counted on the channel message.
C26_Witness ==
    /\ AtDone(1, "react")
    /\ ret[1].ok
    /\ call[1].user = 2
    /\ call[1].cid = 2
    /\ DOMAIN comments = {1, 2}
    /\ reactions[<<2, 2, "like">>] = 1
    /\ comments[2].likes = 1
    /\ reactions[<<1, 1, "like">>] = 1
    /\ comments[1].likes = 1
    /\ comments[1].flagged
    /\ chan[101].requests > 0

\* C27: every stored reaction row has reaction_type like or dislike, and a
\* react call with any other reaction_type leaves the reaction rows and the
\* counters as they were when it was called.
C27_OnlyLikeOrDislikeStored ==
    /\ \A k \in ReactionKeys :
          reactions[k] > 0 => k[3] \in {"like", "dislike"}
    /\ \A p \in env.procs :
          (AtDone(p, "react") /\ call[p].rtype \notin {"like", "dislike"})
             => /\ reactions = pre[p].reactions
                /\ comments = pre[p].comments

\* C28: every reaction row targets an existing comment: a react call on a
\* comment id that does not exist stores no row and does not report
\* success, so a comment just created has no reaction rows.
C28_RowsTargetExistingComments ==
    /\ \A k \in ReactionKeys : reactions[k] > 0 => k[2] \in DOMAIN comments
    /\ \A p \in env.procs :
          (AtDone(p, "react") /\ call[p].cid \notin DOMAIN pre[p].comments)
             => ~ret[p].ok /\ reactions = pre[p].reactions
    /\ \A p \in env.procs :
          (AtDone(p, "create") /\ ret[p].ok)
             => /\ TypeCount(reactions, ret[p].id, "like") = 0
                /\ TypeCount(reactions, ret[p].id, "dislike") = 0

\* C29: when every concurrent caller has commented on post 1 and its
\* synchronizer call has returned after a successful edit, the count the
\* channel message of post 1 shows is the number of comments of post 1.
C29_ShownCountIsCurrent ==
    (\A p \in env.procs : AtDone(p, "sync") /\ ret[p].ok)
       => chan[Posts[1].channel_message_id].shown = get_comment_count(comments, 1)

\* C30: get_comment_sequential_number(c) is the comment_number that
\* get_comments_paginated reports for c on the page that shows it, and no
\* two comments of one post have the same sequential number.
C30_SequentialNumberIsListNumber ==
    /\ \A p \in AllProcs :
          AtDone(p, "list")
          => \A k \in DOMAIN out.list.comments :
                LET item == out.list.comments[k]
                IN item.comment_number
                      = get_comment_sequential_number(comments, item.comment_id)
    /\ \A c, d \in DOMAIN comments :
          (c # d /\ comments[c].post_id = comments[d].post_id)
             => get_comment_sequential_number(comments, c)
                   # get_comment_sequential_number(comments, d)

====
